---- MODULE Spec2Model ----
(***************************************************************************)
(* Model of PowerGridEnvironment (src/environment/power_env.py): the       *)
(* dispatch simulation environment, its constructor, reset and step.       *)
(*                                                                         *)
(* Numbers.  A float is a record [k, v]: k = "fin" with v the value in     *)
(* fixed point (two units per 1.0, so 0.5 is exact), k = "nan", or         *)
(* k = "inf" with v the sign.  Arithmetic follows IEEE-754 as numpy        *)
(* applies it: NaN propagates through +, *, abs, minimum and maximum and   *)
(* every comparison with NaN is false.  float32 rounding is not modelled:  *)
(* every finite value of the model is a small multiple of 0.5.             *)
(*                                                                         *)
(* Arrays.  A one-dimensional numpy array is a sequence; index i of the    *)
(* code is index i + 1 here.  Elementwise operations broadcast as numpy    *)
(* does for one-dimensional operands, and fail with ValueError otherwise.  *)
(***************************************************************************)
EXTENDS Integers, Sequences, FiniteSets, TLC

VARIABLES
    load_data,        \* self.load_data
    mode,             \* self.mode
    num_generators,   \* self.num_generators
    capacities,       \* self.capacities
    costs,            \* self.costs
    max_ramping,      \* self.max_ramping (a scalar is a one-element array)
    reward_weights,   \* self.reward_weights, in tenths
    obs_dim,          \* self.obs_dim
    max_steps,        \* self.max_steps
    current_step,     \* self.current_step
    current_output,   \* self.current_output
    output_ref,       \* the array object self.current_output is bound to:
                      \* "own", or "capacities" when it is self.capacities itself
    global_rng,       \* state of numpy's process-wide generator np.random
    solo_rng,         \* history: the state np.random would have had this instance drawn alone
    ret,              \* what the last call returned or raised, and its inputs
    phase,            \* history: "Idle" until the first reset, then "Running"/"Truncated"
    first_reset,      \* history: what the first reset of the instance returned
    policy,           \* the actions the caller of this instance passes to step
    tie_break,        \* how np.argsort of this build orders equal costs
    evaluate_policy,  \* the locals of evaluate_policy (src/training/evaluate.py)
    train_main        \* the locals of main (src/training/train.py)

vars == <<load_data, mode, num_generators, capacities, costs, max_ramping,
          reward_weights, obs_dim, max_steps, current_step, current_output,
          output_ref, global_rng, solo_rng, ret, phase, first_reset, policy,
          tie_break, evaluate_policy, train_main>>

config_vars == <<load_data, mode, num_generators, capacities, costs, max_ramping,
                 reward_weights, obs_dim, max_steps, policy, tie_break>>

\* the attributes no statement of step can reach, in place or otherwise
unwritten_vars == <<load_data, mode, num_generators, costs, max_ramping,
                    reward_weights, obs_dim, max_steps, policy, tie_break>>

\* the locals of the two scripts
script_vars == <<evaluate_policy, train_main>>

----------------------------------------------------------------------------
(* Floats *)

Fx(n) == 2 * n

F(n) == [k |-> "fin", v |-> n]

NaN == [k |-> "nan", v |-> 0]

PInf == [k |-> "inf", v |-> 1]

NInf == [k |-> "inf", v |-> -1]

IsNaN(x) == x.k = "nan"

IsFinite(x) == x.k = "fin"

Sign(x) == IF x.v > 0 THEN 1 ELSE IF x.v < 0 THEN -1 ELSE 0

\* x < y as IEEE-754 orders them; false when either is NaN
FLt(x, y) ==
    /\ ~IsNaN(x)
    /\ ~IsNaN(y)
    /\ IF IsFinite(x) /\ IsFinite(y) THEN x.v < y.v
       ELSE IF IsFinite(x) THEN y.v > 0
       ELSE IF IsFinite(y) THEN x.v < 0
       ELSE x.v < y.v

FLe(x, y) == ~IsNaN(x) /\ ~IsNaN(y) /\ ~FLt(y, x)

FGt(x, y) == FLt(y, x)

FGe(x, y) == FLe(y, x)

FMaximum(x, y) ==
    IF IsNaN(x) \/ IsNaN(y) THEN NaN ELSE IF FLt(x, y) THEN y ELSE x

FMinimum(x, y) ==
    IF IsNaN(x) \/ IsNaN(y) THEN NaN ELSE IF FLt(y, x) THEN y ELSE x

FClip(x, lo, hi) == FMinimum(FMaximum(x, lo), hi)

FAdd(x, y) ==
    IF IsNaN(x) \/ IsNaN(y) THEN NaN
    ELSE IF IsFinite(x) /\ IsFinite(y) THEN F(x.v + y.v)
    ELSE IF IsFinite(x) THEN y
    ELSE IF IsFinite(y) THEN x
    ELSE IF x.v = y.v THEN x ELSE NaN

FNeg(x) == IF IsNaN(x) THEN NaN ELSE [k |-> x.k, v |-> -x.v]

FSub(x, y) == FAdd(x, FNeg(y))

FAbs(x) == IF IsNaN(x) THEN NaN ELSE [k |-> x.k, v |-> IF x.v < 0 THEN -x.v ELSE x.v]

\* the product of two fixed-point values; exact when one factor is whole
FMul(x, y) ==
    IF IsNaN(x) \/ IsNaN(y) THEN NaN
    ELSE IF IsFinite(x) /\ IsFinite(y) THEN F((x.v * y.v) \div Fx(1))
    ELSE IF Sign(x) * Sign(y) = 0 THEN NaN
    ELSE [k |-> "inf", v |-> Sign(x) * Sign(y)]

\* k * x for a whole number k >= 0 (a change of denominator)
FTimes(k, x) ==
    IF IsNaN(x) THEN NaN
    ELSE IF IsFinite(x) THEN F(k * x.v)
    ELSE IF k = 0 THEN NaN ELSE x

----------------------------------------------------------------------------
(* Arrays *)

\* the array with the elements of f (evaluated once, as a tuple)
Arr(f) == f \o <<>>

\* the value of a one-element set: binds the result of a statement
Only(S) == CHOOSE x \in S : TRUE

CanBroadcast(m, n) == m = n \/ m = 1 \/ n = 1

BLen(m, n) == IF m = 1 THEN n ELSE m

At(a, i) == IF Len(a) = 1 THEN a[1] ELSE a[i]

ArrMul(a, b) == Arr([i \in 1..BLen(Len(a), Len(b)) |-> FMul(At(a, i), At(b, i))])

ArrAdd(a, b) == Arr([i \in 1..BLen(Len(a), Len(b)) |-> FAdd(At(a, i), At(b, i))])

\* mutant: the bounds of np.clip are passed in the wrong order
ArrClipSwapped(a, lo, hi) ==
    Arr([i \in 1..BLen(Len(a), Len(hi)) |-> FClip(At(a, i), At(hi, i), lo)])

ArrClip(a, lo, hi) ==
    Arr([i \in 1..BLen(Len(a), Len(hi)) |-> FClip(At(a, i), lo, At(hi, i))])

ArrAbs(a) == Arr([i \in 1..Len(a) |-> FAbs(a[i])])

RECURSIVE ArrSum(_)
ArrSum(a) == IF a = <<>> THEN F(0) ELSE FAdd(ArrSum(Tail(a)), Head(a))

RECURSIVE ArrMax(_)
ArrMax(a) ==
    IF Len(a) = 1 THEN a[1] ELSE FMaximum(Head(a), ArrMax(Tail(a)))

\* a[lo:hi] of Python for 0 <= lo: the elements at code indices lo .. hi - 1
Slice(a, lo, hi) ==
    LET h == IF hi > Len(a) THEN Len(a) ELSE hi
    IN  IF lo >= h THEN <<>> ELSE Arr([i \in 1..(h - lo) |-> a[lo + i]])

Full(n, x) == Arr([i \in 1..n |-> x])

----------------------------------------------------------------------------
(* Program constants *)

ForecastSteps == 4

HorizonMargin == 5

EpisodeRoom == 24

HoursPerDay == 24

LoadNorm == 10000

CostNorm == 10000

GapNorm == 1000

RampNorm == 100

OverloadNorm == 1000

OverloadPct == 10

\* total_timesteps of quick-test mode
QuickTestSteps == 50000

DefaultWeights ==
    [generation_cost |-> 10, supply_demand_gap |-> 100,
     ramping_penalty |-> 1, overload_penalty |-> 500]

----------------------------------------------------------------------------
(* Bounds of the exploration *)

ShortLen == 7

LongLen == 31

RngPeriod == 4

MaxSeed == 1

MaxEpisodes == 2

MaxGens == 3

MaxCost == 2

\* the largest total_timesteps of a configuration file or of --steps
MaxTimesteps == 3

----------------------------------------------------------------------------
(* Inputs *)

\* an hourly demand series of n samples, in MW: 3, 4, 5, 3, 4, 5, ...
Demand(n) == Arr([i \in 1..n |-> F(Fx(3 + ((i - 1) % 3)))])

\* an hourly demand series of n samples, in MW: 5, 4, 3, 5, 4, 3, ...
Peak(n) == Arr([i \in 1..n |-> F(Fx(5 - ((i - 1) % 3)))])

MW(s) == Arr([i \in 1..Len(s) |-> F(Fx(s[i]))])

\* the 'environment' section of a configuration
CfgTwo ==
    [num_generators |-> 2, generator_capacities |-> MW(<<1, 2>>),
     generator_costs |-> MW(<<3, 0>>), max_ramping |-> MW(<<1>>),
     reward_weights |-> DefaultWeights]

CfgOne ==
    [num_generators |-> 1, generator_capacities |-> MW(<<1>>),
     generator_costs |-> MW(<<1>>), max_ramping |-> MW(<<1>>),
     reward_weights |-> DefaultWeights]

\* lists longer than num_generators: accepted by the constructor
CfgLong ==
    [num_generators |-> 1, generator_capacities |-> MW(<<1, 1>>),
     generator_costs |-> MW(<<1, 2>>), max_ramping |-> MW(<<1, 1>>),
     reward_weights |-> DefaultWeights]

\* one generator of 9 MW: it starts at 4.5 MW, within 10% of a demand of 5 MW
CfgBig ==
    [num_generators |-> 1, generator_capacities |-> MW(<<9>>),
     generator_costs |-> MW(<<1>>), max_ramping |-> MW(<<1>>),
     reward_weights |-> DefaultWeights]

\* five generators of 100 MW each, one ramp limit of 10 MW for all
CfgFive ==
    [num_generators |-> 5, generator_capacities |-> MW(<<100, 100, 100, 100, 100>>),
     generator_costs |-> MW(<<10, 30, 50, 0, 0>>), max_ramping |-> MW(<<10>>),
     reward_weights |-> DefaultWeights]

ActionValues == {NaN, PInf, NInf, F(Fx(-2)), F(Fx(-1)), F(0), F(1), F(Fx(1)), F(Fx(2))}

\* the actions a caller passes to an instance of one generator: every
\* one-element vector over ActionValues, and two vectors one too long
PolicyOne ==
    [1..1 -> ActionValues] \cup {<<F(0), F(0)>>, <<F(Fx(1)), F(Fx(-1))>>}

\* to an instance of two generators: every pair over -1, 0, 1; pairs with
\* halves, out-of-range and non-finite entries; vectors too short and too long
PolicyTwo ==
    [1..2 -> {F(Fx(-1)), F(0), F(Fx(1))}]
        \cup {<<F(1), F(-1)>>, <<F(Fx(2)), F(Fx(-2))>>, <<NaN, F(0)>>, <<PInf, NInf>>}
        \cup {<<F(Fx(1))>>, <<F(0), F(0), F(0)>>}

\* to an instance over a long series
PolicyFew == {<<F(0)>>, <<F(Fx(1))>>, <<F(-1)>>, <<NaN>>}

ScenarioAction == <<F(Fx(1)), F(Fx(1)), F(Fx(-1)), F(Fx(-1)), F(0)>>

\* to the instance of one 9 MW generator: whole and half ramps
PolicyHalf == {<<F(0)>>, <<F(1)>>, <<F(-1)>>, <<F(Fx(1))>>, <<F(Fx(-1))>>}

\* to the instance of five generators
PolicyFive == {ScenarioAction, Full(5, F(0))}

\* the constructor calls explored, (load_data, config, mode), each with the
\* actions its caller passes
Constructions ==
    {<<Demand(ShortLen), CfgTwo, "test", PolicyTwo>>,
     <<Demand(ShortLen), CfgOne, "test", PolicyOne>>,
     <<Demand(ShortLen), CfgLong, "test", PolicyOne>>,
     <<Demand(ShortLen), CfgFive, "test", PolicyFive>>,
     <<Peak(ShortLen), CfgBig, "test", PolicyHalf>>,
     <<Demand(LongLen), CfgOne, "train", PolicyFew>>,
     <<Demand(LongLen), CfgOne, "test", PolicyFew>>,
     <<Demand(ShortLen), CfgOne, "train", PolicyFew>>,
     <<Demand(3), CfgOne, "test", PolicyFew>>,
     <<Demand(0), CfgOne, "test", PolicyFew>>}

\* the seed argument of reset: <<>> is None
SeedInputs == {<<>>} \cup {<<s>> : s \in 0..MaxSeed}

----------------------------------------------------------------------------
(* __init__ *)

\* mutant: the dimension the accompanying test expects
ObsDimTest(n) == 9 + 3 * n

ObsDim(n) == 1 + n + 4 + 2

\* mutant: the horizon leaves room for the forecast only
MaxStepsForecastOnly(data) == Len(data) - ForecastSteps

MaxSteps(data) == Len(data) - HorizonMargin

NoReturn(op) ==
    [op |-> op, raised |-> "", action |-> <<>>, seed |-> <<>>, obs |-> <<>>,
     reward |-> F(0), terminated |-> FALSE, truncated |-> FALSE, info |-> <<>>,
     adjustments |-> <<>>, step0 |-> 0, output0 |-> <<>>, phase0 |-> "Idle",
     solo0 |-> 0]

\* no reset of the instance has returned yet
NoReset == [op |-> "none", seed |-> <<>>, step |-> 0, output |-> <<>>, obs |-> <<>>]

Construct(data, cfg, m) ==
    /\ load_data = data
    /\ mode = m
    /\ num_generators = cfg.num_generators
    /\ capacities = cfg.generator_capacities
    /\ costs = cfg.generator_costs
    /\ max_ramping = cfg.max_ramping
    /\ reward_weights = cfg.reward_weights
    /\ obs_dim = ObsDim(cfg.num_generators)
    /\ current_step = 0
    /\ current_output = Full(cfg.num_generators, F(0))
    /\ max_steps = MaxSteps(data)

\* evaluate_policy is not running
NoEvaluation ==
    [pc |-> "idle", policy |-> "none", episodes |-> 0, ep |-> 0, steps |-> 0,
     offset |-> 0, first_len |-> 0, last_len |-> 0, raised_in |-> ""]

\* main of train.py is not running
NoMain ==
    [pc |-> "idle", steps |-> <<>>, quick_test |-> FALSE, configured |-> 0,
     total_timesteps |-> <<>>, passed |-> <<>>]

\* an instance built by one of the constructor calls cons, not yet used
InitEnv(cons) ==
    /\ \E c \in cons : Construct(c[1], c[2], c[3]) /\ policy = c[4]
    /\ global_rng \in 0..(RngPeriod - 1)
    /\ mode # "train" => global_rng = 0
    /\ solo_rng = global_rng
    /\ output_ref = "own"
    /\ ret = NoReturn("init")
    /\ phase = "Idle"
    /\ first_reset = NoReset

Init ==
    /\ InitEnv(Constructions)
    /\ tie_break = "stable"
    /\ evaluate_policy = NoEvaluation
    /\ train_main = NoMain

----------------------------------------------------------------------------
(* _get_observation *)

Ratio(x, d) == [t |-> "ratio", n |-> x, d |-> d]

TimeFeature(f, hour) == [t |-> f, n |-> F(hour), d |-> F(HoursPerDay)]

\* mutant: the forecast is the slice alone, without padding
ForecastNoPad(cs) == Slice(load_data, cs + 1, cs + 1 + ForecastSteps)

Forecast(cs) ==
    IF cs + 1 + ForecastSteps > Len(load_data)
    THEN LET remaining == Len(load_data) - (cs + 1)
             forecast == Slice(load_data, cs + 1, Len(load_data))
         IN  IF remaining < ForecastSteps
             THEN forecast \o Full(ForecastSteps - remaining, load_data[Len(load_data)])
             ELSE forecast
    ELSE Slice(load_data, cs + 1, cs + 1 + ForecastSteps)

\* raises IndexError unless cs < Len(load_data)
GetObservation(cs, out) ==
    LET current_load == load_data[cs + 1]
        forecast == Forecast(cs)
        hour == cs % HoursPerDay
        norm_load == <<Ratio(current_load, F(Fx(LoadNorm)))>>
        norm_output == Arr([i \in 1..Len(out) |-> Ratio(out[i], ArrMax(capacities))])
        norm_forecast == Arr([i \in 1..Len(forecast) |-> Ratio(forecast[i], F(Fx(LoadNorm)))])
        time_features == <<TimeFeature("sin", hour), TimeFeature("cos", hour)>>
    IN  norm_load \o norm_output \o norm_forecast \o time_features

----------------------------------------------------------------------------
(* _calculate_reward *)

\* mutant: the penalty starts at the threshold
OverloadedFromThreshold(gap, load) == FGe(FTimes(100, gap), FTimes(OverloadPct, load))

\* gap > 0.1 * load, compared exactly (the model's gaps are multiples of 0.5
\* and no product 0.1 * load of the model rounds across one)
Overloaded(gap, load) == FGt(FTimes(100, gap), FTimes(OverloadPct, load))

\* the common denominator of the four normalisations
RewardDen == CostNorm

\* the weighted sum, as a multiple of 1 / (10 * RewardDen): weights are in tenths
RewardOf(op_cost, gap, ramping_cost, overload) ==
    LET w == reward_weights
    IN  FNeg(FAdd(FAdd(
                FTimes(w.generation_cost * (RewardDen \div CostNorm), op_cost),
                FTimes(w.supply_demand_gap * (RewardDen \div GapNorm), gap)),
              FAdd(
                FTimes(w.ramping_penalty * (RewardDen \div RampNorm), ramping_cost),
                FTimes(w.overload_penalty * (RewardDen \div OverloadNorm), overload))))

OverloadOf(gap, load) == IF Overloaded(gap, load) THEN FMul(gap, F(Fx(2))) ELSE F(0)

CalculateReward(load, generation, adjustments, out) ==
    Only({[step_reward |-> RewardOf(op_cost, gap, ramping_cost, OverloadOf(gap, load)),
           cost |-> op_cost, gap |-> gap, ramping |-> ramping_cost,
           overload |-> OverloadOf(gap, load)] :
              op_cost \in {ArrSum(ArrMul(out, costs))},
              gap \in {FAbs(FSub(generation, load))},
              ramping_cost \in {ArrSum(ArrAbs(adjustments))}})

----------------------------------------------------------------------------
(* np.random, the generator of the process *)

\* np.random.randint(0, high) in state g; raises ValueError unless high > 0
RandInt(g, high) == g % high

RngNext(g) == (g + 1) % RngPeriod

\* a draw made elsewhere in the process, e.g. RandomPolicy.select_action
OtherDraw ==
    /\ global_rng' = RngNext(global_rng)
    /\ UNCHANGED <<config_vars, current_step, current_output, output_ref, solo_rng,
                   ret, phase, first_reset>>

\* the reset of another instance in train mode: line 95 run for that
\* instance draws from the same generator
OtherReset ==
    /\ global_rng' = RngNext(global_rng)
    /\ UNCHANGED <<config_vars, current_step, current_output, output_ref, solo_rng,
                   ret, phase, first_reset>>

----------------------------------------------------------------------------
(* reset *)

\* mutant: the offset is drawn from the whole horizon
StartOffsetAnywhere(g) ==
    IF mode = "train" THEN RandInt(g, max_steps) ELSE 0

StartOffset(g) ==
    IF mode = "train" THEN RandInt(g, max_steps - EpisodeRoom) ELSE 0

\* mutant: reset keeps the outputs of the previous episode
StaleOutput == current_output

\* mutant: reset binds self.current_output to self.capacities itself
SharedOutputRef == "capacities"

\* line 101: the product self.capacities * 0.5 is a new array
ResetOutputRef == "own"

\* mutant: the generators start at full capacity
FullOutput == capacities

\* self.capacities * 0.5
InitialOutput == ArrMul(capacities, <<F(1)>>)

ResetOutcome(seed) ==
    IF mode = "train" /\ max_steps - EpisodeRoom <= 0
    THEN [raised |-> "ValueError", step |-> current_step, output |-> current_output,
          rng |-> global_rng, drew |-> FALSE, obs |-> <<>>, info |-> <<>>]
    ELSE LET cs == StartOffset(global_rng)
             out == InitialOutput
             rng == IF mode = "train" THEN RngNext(global_rng) ELSE global_rng
         IN  IF cs >= Len(load_data)
             THEN [raised |-> "IndexError", step |-> cs, output |-> out,
                   rng |-> rng, drew |-> mode = "train", obs |-> <<>>, info |-> <<>>]
             ELSE [raised |-> "", step |-> cs, output |-> out,
                   rng |-> rng, drew |-> mode = "train",
                   obs |-> GetObservation(cs, out), info |-> <<>>]

Reset(seed) ==
    \E r \in {ResetOutcome(seed)} :
        \E returned \in {[NoReturn("reset") EXCEPT
                             !.raised = r.raised, !.seed = seed, !.obs = r.obs,
                             !.info = r.info,
                             !.step0 = current_step, !.output0 = current_output,
                             !.phase0 = phase, !.solo0 = solo_rng]} :
            /\ current_step' = r.step
            /\ current_output' = r.output
            /\ output_ref' = IF r.raised = "ValueError" THEN output_ref ELSE ResetOutputRef
            /\ global_rng' = r.rng
            /\ solo_rng' = IF r.drew THEN RngNext(solo_rng) ELSE solo_rng
            /\ ret' = returned
            /\ phase' = IF r.raised = "" THEN "Running" ELSE phase
            /\ first_reset' = IF r.raised = "" /\ first_reset.op = "none"
                              THEN [op |-> "reset", seed |-> seed, step |-> r.step,
                                    output |-> r.output, obs |-> r.obs]
                              ELSE first_reset
            /\ UNCHANGED config_vars

----------------------------------------------------------------------------
(* step *)

\* mutant: the action is used as given
UnclippedAction(action) == action

\* np.clip(action, -1.0, 1.0)
ClipAction(action) == Arr([i \in 1..Len(action) |-> FClip(action[i], F(Fx(-1)), F(Fx(1)))])

\* mutant: the end of the horizon is reported as termination
TerminatedAtHorizon == current_step + 1 >= max_steps

Terminated == FALSE

\* mutant: the episode runs to the end of the series
TruncatedAtEnd(cs) == cs >= Len(load_data)

Truncated(cs) == cs >= max_steps

\* what step leaves behind when it raises e: the outputs and the index as
\* they are at the statement that raises
Raise(e, out, cs) ==
    [raised |-> e, output |-> out, step |-> cs, obs |-> <<>>, reward |-> F(0),
     terminated |-> FALSE, truncated |-> FALSE, info |-> <<>>, adjustments |-> <<>>]

\* mutant: the observation is built before the index advances
AdvanceStale(cs, out, adjustments, current_load, total_generation, reward_info) ==
    LET cs1 == cs + 1
    IN  IF cs1 >= Len(load_data)
        THEN Raise("IndexError", out, cs1)
        ELSE [raised |-> "", output |-> out, step |-> cs1,
              obs |-> GetObservation(cs, out),
              reward |-> reward_info.step_reward,
              terminated |-> Terminated,
              truncated |-> Truncated(cs1),
              adjustments |-> adjustments,
              info |-> [load |-> current_load, generation |-> total_generation,
                        cost |-> reward_info.cost, gap |-> reward_info.gap,
                        step_reward |-> reward_info.step_reward,
                        ramping |-> reward_info.ramping,
                        overload |-> reward_info.overload]]

\* lines 140-157: advance time, build the observation and the diagnostics
Advance(cs, out, adjustments, current_load, total_generation, reward_info) ==
    LET cs1 == cs + 1
    IN  IF cs1 >= Len(load_data)
        THEN Raise("IndexError", out, cs1)
        ELSE [raised |-> "", output |-> out, step |-> cs1,
              obs |-> GetObservation(cs1, out),
              reward |-> reward_info.step_reward,
              terminated |-> Terminated,
              truncated |-> Truncated(cs1),
              adjustments |-> adjustments,
              info |-> [load |-> current_load, generation |-> total_generation,
                        cost |-> reward_info.cost, gap |-> reward_info.gap,
                        step_reward |-> reward_info.step_reward,
                        ramping |-> reward_info.ramping,
                        overload |-> reward_info.overload]]

\* lines 133-138: read the demand sample, total the outputs, score them
Score(cs, out, adjustments) ==
    IF cs >= Len(load_data)
    THEN Raise("IndexError", out, cs)
    ELSE IF ~CanBroadcast(Len(out), Len(costs))
    THEN Raise("ValueError", out, cs)
    ELSE Only({Only({Advance(cs, out, adjustments, current_load, total_generation,
                             reward_info) :
                         reward_info \in {CalculateReward(current_load, total_generation,
                                                          adjustments, out)}}) :
                   current_load \in {load_data[cs + 1]},
                   total_generation \in {ArrSum(out)}})

\* mutant: the reward is given the change the outputs made after clamping
EnforceEffective(cs, out, adjustments) ==
    IF ~CanBroadcast(Len(out), Len(capacities))
    THEN Raise("ValueError", out, cs)
    ELSE Only({Score(cs, out2,
                     Arr([i \in 1..Len(out2) |->
                             FSub(out2[i], FSub(At(out, i), At(adjustments, i)))])) :
                   out2 \in {ArrClip(out, F(0), capacities)}})

\* line 131: np.clip(self.current_output, 0, self.capacities)
Enforce(cs, out, adjustments) ==
    IF ~CanBroadcast(Len(out), Len(capacities))
    THEN Raise("ValueError", out, cs)
    ELSE Only({Score(cs, out2, adjustments) : out2 \in {ArrClip(out, F(0), capacities)}})

\* mutant: the adjustments replace the outputs instead of adding to them
AdjustOverwrite(cs, out, adjustments) == Enforce(cs, adjustments, adjustments)

\* line 128: self.current_output += adjustments, in place
Adjust(cs, out, adjustments) ==
    IF ~(Len(adjustments) = Len(out) \/ Len(adjustments) = 1)
    THEN Raise("ValueError", out, cs)
    ELSE Only({Enforce(cs, out1, adjustments) : out1 \in {ArrAdd(out, adjustments)}})

\* step(action0) called with self.current_step = cs, self.current_output = out
StepOutcome(cs, out, action0) ==
    IF ~CanBroadcast(Len(action0), Len(max_ramping))
    THEN Raise("ValueError", out, cs)
    ELSE Only({Adjust(cs, out, adjustments) :
                   adjustments \in {ArrMul(action, max_ramping) :
                                        action \in {ClipAction(action0)}}})

\* line 128 writes in place: what the array object self.current_output is
\* bound to holds once += has run (done = FALSE when step raises before)
InPlaceSum(out, action0) ==
    IF /\ CanBroadcast(Len(action0), Len(max_ramping))
       /\ \/ BLen(Len(action0), Len(max_ramping)) = Len(out)
          \/ BLen(Len(action0), Len(max_ramping)) = 1
    THEN Only({[done |-> TRUE, value |-> ArrAdd(out, adjustments)] :
                   adjustments \in {ArrMul(action, max_ramping) :
                                        action \in {ClipAction(action0)}}})
    ELSE [done |-> FALSE, value |-> out]

Step(action) ==
    \E r \in {StepOutcome(current_step, current_output, action)},
       w \in {InPlaceSum(current_output, action)} :
        /\ current_step' = r.step
        /\ current_output' = r.output
        /\ capacities' = IF w.done /\ output_ref = "capacities" THEN w.value
                          ELSE capacities
        \* line 131 binds self.current_output to the new array np.clip returns
        /\ output_ref' = IF w.done /\ CanBroadcast(Len(w.value), Len(capacities'))
                          THEN "own" ELSE output_ref
        /\ ret' = [NoReturn("step") EXCEPT
                      !.raised = r.raised, !.action = action, !.obs = r.obs,
                      !.reward = r.reward, !.terminated = r.terminated,
                      !.truncated = r.truncated, !.info = r.info,
                      !.adjustments = r.adjustments,
                      !.step0 = current_step, !.output0 = current_output,
                      !.phase0 = phase]
        /\ phase' = IF r.raised = "" /\ r.truncated /\ phase = "Running"
                    THEN "Truncated" ELSE phase
        /\ UNCHANGED <<unwritten_vars, global_rng, solo_rng, first_reset>>

----------------------------------------------------------------------------

DoReset == (\E seed \in SeedInputs : Reset(seed)) /\ UNCHANGED script_vars

DoStep == (\E action \in policy : Step(action)) /\ UNCHANGED script_vars

DoOtherDraw == mode = "train" /\ OtherDraw /\ UNCHANGED script_vars

Next == DoReset \/ DoStep

Spec == Init /\ [][Next]_vars

\* an instance in train mode, in a process where other code draws from np.random
InitRng == Init /\ mode = "train"

NextRng == DoReset \/ DoStep \/ DoOtherDraw

SpecRng == InitRng /\ [][NextRng]_vars

\* an instance in train mode beside another one, whose resets interleave with
\* the calls of this one in any order
DoOtherReset == mode = "train" /\ OtherReset /\ UNCHANGED script_vars

NextTwo == DoReset \/ DoStep \/ DoOtherReset

SpecTwo == InitRng /\ [][NextTwo]_vars

----------------------------------------------------------------------------
(* GreedyPolicy (src/agent/baseline_policies.py), built from the same config *)

\* generator a comes before generator b in np.argsort(c)
Before(c, a, b) ==
    \/ FLt(c[a], c[b])
    \/ c[a] = c[b] /\ IF tie_break = "stable" THEN a < b ELSE a > b

\* mutant: the generators are ranked by descending cost
ArgSortDescending(c) ==
    Arr([k \in 1..Len(c) |->
            CHOOSE a \in 1..Len(c) :
                Cardinality({b \in 1..Len(c) : Before(c, a, b)}) = k - 1])

\* np.argsort(c): the generators by ascending cost (index i of the code is i + 1)
ArgSort(c) ==
    Arr([k \in 1..Len(c) |->
            CHOOSE a \in 1..Len(c) :
                Cardinality({b \in 1..Len(c) : Before(c, b, a)}) = k - 1])

\* lines 39-50: sorted_indices; the four assignments, in the order of the code
GreedyAction(sorted_indices) ==
    LET last == Len(sorted_indices)
        a0 == Full(num_generators, F(0))
        a1 == [a0 EXCEPT ![sorted_indices[1]] = F(Fx(1))]
        a2 == [a1 EXCEPT ![sorted_indices[2]] = F(1)]
        a3 == [a2 EXCEPT ![sorted_indices[last]] = F(Fx(-1))]
        a4 == [a3 EXCEPT ![sorted_indices[last - 1]] = F(-1)]
    IN  IF \/ last < 2
           \/ \E k \in {1, 2, last, last - 1} : sorted_indices[k] > num_generators
        THEN [raised |-> "IndexError", action |-> <<>>]
        ELSE [raised |-> "", action |-> a4]

\* GreedyPolicy.select_action(observation)
GreedySelect(observation) == GreedyAction(ArgSort(costs))

----------------------------------------------------------------------------
(* evaluate_policy (src/training/evaluate.py) *)

env_vars == <<config_vars, current_step, current_output, output_ref, global_rng,
              solo_rng, ret, phase, first_reset>>

\* the actions the evaluated policy may return on observation obs: those of
\* GreedyPolicy, or any vector of num_generators entries of the caller's set
Selected(obs) ==
    IF evaluate_policy.policy = "greedy"
    THEN {g.action : g \in {h \in {GreedySelect(obs)} : h.raised = ""}}
    ELSE {a \in policy : Len(a) = num_generators}

\* line 52: obs, _ = env.reset()
EvalReset ==
    /\ evaluate_policy.pc = "reset"
    /\ evaluate_policy.ep < evaluate_policy.episodes
    /\ Reset(<<>>)
    /\ evaluate_policy' =
           IF ret'.raised # ""
           THEN [evaluate_policy EXCEPT !.pc = "raised", !.raised_in = "reset"]
           ELSE [evaluate_policy EXCEPT !.pc = "loop", !.steps = 0,
                                         !.offset = current_step']
    /\ UNCHANGED train_main

\* line 67: policy.select_action(obs) raises
EvalSelectFails ==
    /\ evaluate_policy.pc = "loop"
    /\ evaluate_policy.policy = "greedy"
    /\ GreedySelect(ret.obs).raised # ""
    /\ evaluate_policy' =
           [evaluate_policy EXCEPT !.pc = "raised", !.raised_in = "select_action"]
    /\ UNCHANGED <<env_vars, train_main>>

\* lines 62-70: one turn of the loop, while not (done or truncated)
EvalStep ==
    /\ evaluate_policy.pc = "loop"
    /\ \E action \in Selected(ret.obs) : Step(action)
    /\ evaluate_policy' =
           IF ret'.raised # ""
           THEN [evaluate_policy EXCEPT !.pc = "raised", !.raised_in = "step"]
           ELSE IF ret'.terminated \/ ret'.truncated
           THEN [evaluate_policy EXCEPT
                    !.pc = "reset", !.ep = @ + 1, !.steps = @ + 1,
                    !.last_len = evaluate_policy.steps + 1,
                    !.first_len = IF evaluate_policy.ep = 0
                                  THEN evaluate_policy.steps + 1 ELSE @]
           ELSE [evaluate_policy EXCEPT !.steps = @ + 1]
    /\ UNCHANGED train_main

\* lines 93-102: every episode has run
EvalReturn ==
    /\ evaluate_policy.pc = "reset"
    /\ evaluate_policy.ep = evaluate_policy.episodes
    /\ evaluate_policy' = [evaluate_policy EXCEPT !.pc = "done"]
    /\ UNCHANGED <<env_vars, train_main>>

\* evaluate_policy(env, policy, episodes) is entered
Evaluating(kind) ==
    \E e \in 1..MaxEpisodes :
        evaluate_policy = [NoEvaluation EXCEPT !.pc = "reset", !.policy = kind,
                                               !.episodes = e]

\* every cost vector of 1 to MaxGens generators over the costs 0 .. MaxCost
CostVectors ==
    UNION {{Arr(c) : c \in [1..n -> {F(Fx(v)) : v \in 0..MaxCost}]} : n \in 1..MaxGens}

\* generators of 1 MW each with the costs c
CfgGreedy(c) ==
    [num_generators |-> Len(c), generator_capacities |-> Full(Len(c), F(Fx(1))),
     generator_costs |-> c, max_ramping |-> MW(<<1>>),
     reward_weights |-> DefaultWeights]

\* the instances GreedyPolicy is evaluated on (it returns the actions itself)
GreedyConstructions ==
    {<<Demand(ShortLen), CfgGreedy(c), "test", {}>> : c \in CostVectors}
        \cup {<<Demand(ShortLen), CfgFive, "test", {}>>}

InitGreedy ==
    /\ InitEnv(GreedyConstructions)
    /\ tie_break \in {"stable", "reversed"}
    /\ Evaluating("greedy")
    /\ train_main = NoMain

NextGreedy == EvalReset \/ EvalSelectFails \/ EvalStep \/ EvalReturn

SpecGreedy == InitGreedy /\ [][NextGreedy]_vars

\* the shortest series a train-mode reset accepts: max_steps - 24 = 1
MinTrainLen == EpisodeRoom + HorizonMargin + 1

\* the instances a policy of the caller is evaluated on
EvalConstructions ==
    {<<Demand(LongLen), CfgOne, "train", PolicyFew>>,
     <<Demand(LongLen), CfgOne, "test", PolicyFew>>,
     <<Demand(MinTrainLen), CfgOne, "train", PolicyFew>>,
     <<Demand(MinTrainLen), CfgOne, "val", PolicyFew>>,
     <<Demand(ShortLen), CfgTwo, "test", PolicyTwo>>,
     <<Demand(ShortLen), CfgOne, "train", PolicyFew>>,
     <<Demand(3), CfgOne, "test", PolicyFew>>,
     <<Demand(0), CfgOne, "test", PolicyFew>>}

InitEval ==
    /\ InitEnv(EvalConstructions)
    /\ tie_break = "stable"
    /\ Evaluating("caller")
    /\ train_main = NoMain

NextEval == EvalReset \/ EvalStep \/ EvalReturn

SpecEval == InitEval /\ [][NextEval]_vars

\* to an instance whose episodes are followed to their end
PolicyPair == {<<F(0)>>, <<F(Fx(1))>>}

\* the instances on which the loops of evaluate_policy are followed to
\* their end
FairConstructions ==
    {<<Demand(LongLen), CfgOne, "train", PolicyPair>>,
     <<Demand(LongLen), CfgOne, "val", PolicyPair>>,
     <<Demand(ShortLen), CfgOne, "test", PolicyFew>>,
     <<Demand(ShortLen), CfgOne, "train", PolicyFew>>,
     <<Demand(3), CfgOne, "test", PolicyFew>>,
     <<Demand(0), CfgOne, "test", PolicyFew>>}

InitEvalFair ==
    /\ InitEnv(FairConstructions)
    /\ tie_break = "stable"
    /\ Evaluating("caller")
    /\ train_main = NoMain

\* evaluate_policy is one sequential loop: it takes its next step whenever
\* it has one
SpecEvalFair == InitEvalFair /\ [][NextEval]_vars /\ WF_vars(NextEval)

----------------------------------------------------------------------------
(* main of the training script (src/training/train.py) *)

\* what --steps may carry: <<>> is None, the option absent
StepsArgs == {<<>>} \cup {<<n>> : n \in 1..MaxTimesteps}

\* line 39: args = parser.parse_args()
Parsed ==
    \E steps \in StepsArgs, quick_test \in BOOLEAN, configured \in 1..MaxTimesteps :
        train_main = [NoMain EXCEPT !.pc = "parsed", !.steps = steps,
                                    !.quick_test = quick_test,
                                    !.configured = configured]

\* lines 43-44: config = yaml.safe_load(f)
LoadConfig ==
    /\ train_main.pc = "parsed"
    /\ train_main' = [train_main EXCEPT !.pc = "loaded",
                                        !.total_timesteps = <<train_main.configured>>]
    /\ UNCHANGED <<env_vars, evaluate_policy>>

\* lines 46-48: the assignment stands in the with block, under no condition
OverrideSteps ==
    /\ train_main.pc = "loaded"
    /\ train_main' = [train_main EXCEPT !.pc = "overridden",
                                        !.total_timesteps = train_main.steps]
    /\ UNCHANGED <<env_vars, evaluate_policy>>

\* lines 50-54: if args.quick_test
QuickTest ==
    /\ train_main.pc = "overridden"
    /\ train_main' = [train_main EXCEPT
                         !.pc = "prepared",
                         !.total_timesteps = IF train_main.quick_test
                                             THEN <<QuickTestSteps>> ELSE @]
    /\ UNCHANGED <<env_vars, evaluate_policy>>

\* lines 85-91: train_agent(model, total_timesteps=config['training'][...], ...)
CallTrainAgent ==
    /\ train_main.pc = "prepared"
    /\ train_main' = [train_main EXCEPT !.pc = "called",
                                        !.passed = train_main.total_timesteps]
    /\ UNCHANGED <<env_vars, evaluate_policy>>

\* line 70: train_env, built on the training split
TrainConstructions == {<<Demand(LongLen), CfgOne, "train", PolicyFew>>}

InitTrain ==
    /\ InitEnv(TrainConstructions)
    /\ tie_break = "stable"
    /\ evaluate_policy = NoEvaluation
    /\ Parsed

NextTrain == LoadConfig \/ OverrideSteps \/ QuickTest \/ CallTrainAgent

SpecTrain == InitTrain /\ [][NextTrain]_vars

----------------------------------------------------------------------------
(* Properties *)

StepReturned == ret.op = "step" /\ ret.raised = ""

\* the instance is used as documented: its configuration lists have
\* num_generators entries, its series holds an episode of at least one step
\* and the call follows a reset, before truncation
ProperUse ==
    /\ Len(capacities) = num_generators
    /\ Len(costs) = num_generators
    /\ max_steps > 0
    /\ ret.phase0 = "Running"

ResetReturned == ret.op = "reset" /\ ret.raised = ""

AllFinite(a) == \A i \in 1..Len(a) : IsFinite(a[i])

ObsFinite(obs) == \A i \in 1..Len(obs) : IsFinite(obs[i].n)

\* C1: after step returns, every generator output lies in [0, capacity],
\* whatever the action (stated for proper use of a well-formed instance)
C1_OutputsWithinBounds ==
    (StepReturned /\ ProperUse) =>
        \A i \in 1..Len(current_output) :
            /\ FLe(F(0), current_output[i])
            /\ FLe(current_output[i], At(capacities, i))

\* C2 as amended: step returns truncated = true exactly when the index it
\* leaves is at least the series length minus 5; on a series of more than 5
\* samples the first such step after a reset is the one that brings the
\* index to exactly that horizon
C2_TruncatedAtHorizon ==
    StepReturned =>
        /\ ret.truncated = (current_step >= Len(load_data) - HorizonMargin)
        /\ (ret.phase0 = "Running" /\ ret.truncated /\ Len(load_data) > HorizonMargin)
               => current_step = Len(load_data) - HorizonMargin

C2_Witness ==
    /\ StepReturned
    /\ ret.phase0 = "Running"
    /\ ret.truncated
    /\ current_step = Len(load_data) - HorizonMargin
    /\ ret.step0 > first_reset.step

\* C2 as stated: after a reset, truncated = true exactly on the step that
\* brings the index to the series length minus the forecast horizon, 4
\* (stated for series long enough to hold an untruncated step)
C2_TruncatedAtLengthMinusForecast ==
    (StepReturned /\ ret.phase0 = "Running" /\ Len(load_data) > HorizonMargin + 1)
        => (ret.truncated <=> current_step = Len(load_data) - ForecastSteps)

C4_ObservationLength ==
    (StepReturned \/ ResetReturned) => Len(ret.obs) = obs_dim

\* C5: the reward of every step is finite and at most 0 (weights, costs
\* and demand are non-negative in every instance explored; stated for
\* proper use of a well-formed instance)
C5_RewardFiniteNonPositive ==
    (StepReturned /\ ProperUse) => IsFinite(ret.reward) /\ FLe(ret.reward, F(0))

\* C6: step fails when called before the first reset, and when called after
\* a step returned truncated = true with no reset in between
C6_UsageErrorsFail ==
    (ret.op = "step" /\ ret.phase0 \in {"Idle", "Truncated"}) => ret.raised # ""

\* C7: step called with an action whose length differs from num_generators
\* fails and changes nothing (stated for proper use of a well-formed
\* instance)
C7_WrongShapeRejected ==
    (ret.op = "step" /\ ProperUse /\ Len(ret.action) # num_generators)
        => /\ ret.raised # ""
           /\ current_output = ret.output0
           /\ current_step = ret.step0

\* C8: when an action of num_generators entries has non-finite entries,
\* step raises nothing, returns a finite observation and reward and stores
\* finite outputs (stated for proper use of a well-formed instance)
C8_NonFiniteSanitised ==
    (/\ ret.op = "step"
     /\ ProperUse
     /\ Len(ret.action) = num_generators
     /\ ~AllFinite(ret.action))
        => /\ ret.raised = ""
           /\ ObsFinite(ret.obs)
           /\ IsFinite(ret.reward)
           /\ AllFinite(current_output)

\* clamp(a, -1, 1) for a finite vector a
ClampToUnit(a) ==
    [i \in 1..Len(a) |->
        IF a[i].v > Fx(1) THEN F(Fx(1)) ELSE IF a[i].v < Fx(-1) THEN F(Fx(-1)) ELSE a[i]]

\* C9: for every finite action a, step(a) and step(clamp(a, -1, 1)) from the
\* same state give the same outputs, index, reward, diagnostics, flags and
\* observation, and raise alike
C9_ClampEquivalence ==
    (ret.op = "step" /\ AllFinite(ret.action)) =>
        \A r \in {StepOutcome(ret.step0, ret.output0, ClampToUnit(ret.action))} :
            /\ r.raised = ret.raised
            /\ r.output = current_output
            /\ r.step = current_step
            /\ r.reward = ret.reward
            /\ r.terminated = ret.terminated
            /\ r.truncated = ret.truncated
            /\ r.obs = ret.obs
            /\ DOMAIN r.info = DOMAIN ret.info
            /\ \A key \in DOMAIN r.info : r.info[key] = ret.info[key]

C9_Witness ==
    /\ StepReturned
    /\ ret.phase0 = "Running"
    /\ AllFinite(ret.action)
    /\ \E i \in 1..Len(ret.action) : FGt(ret.action[i], F(Fx(1)))
    /\ \E i \in 1..Len(ret.action) : FLt(ret.action[i], F(Fx(-1)))

\* C10: outside train mode every reset that returns leaves the start offset
\* 0 and returns the observation the first reset of the instance returned,
\* which is the one a fresh instance over the same series returns, whatever
\* the seeds and whatever steps came before
C10_EvalResetDeterministic ==
    (mode # "train" /\ ResetReturned) =>
        /\ current_step = 0
        /\ first_reset.step = 0
        /\ ret.obs = first_reset.obs
        /\ ret.obs = GetObservation(0, ArrMul(capacities, <<F(1)>>))

C10_Witness ==
    /\ mode # "train"
    /\ ResetReturned
    /\ ret.phase0 = "Truncated"
    /\ ret.step0 > 0
    /\ ret.output0 # current_output
    /\ ret.seed # <<>>

\* C11: in train mode two resets of the instance with the same seed leave the
\* same start offset, whatever was drawn from np.random in between (the
\* later reset is compared with the first one that returned)
C11_SameSeedSameOffset ==
    (/\ mode = "train"
     /\ ResetReturned
     /\ ret.seed # <<>>
     /\ first_reset.op = "reset"
     /\ ret.seed = first_reset.seed)
        => current_step = first_reset.step

\* C12: in train mode every start offset the instance obtains is the one it
\* obtains when the other instance never resets, however the resets of the
\* other instance interleave with its own
C12_OffsetsIndependentOfOtherInstance ==
    (mode = "train" /\ ResetReturned)
        => current_step = RandInt(ret.solo0, max_steps - EpisodeRoom)

\* C13: after every reset that returns, whatever came before, every output
\* is half the capacity of its generator and the diagnostics returned are
\* empty; the outputs are those the first reset of the instance left
C13_ResetRestoresInitialState ==
    ResetReturned =>
        /\ Len(current_output) = Len(capacities)
        /\ \A i \in 1..Len(current_output) :
               FTimes(2, current_output[i]) = capacities[i]
        /\ ret.info = <<>>
        /\ current_output = first_reset.output

C13_Witness ==
    /\ ResetReturned
    /\ ret.phase0 = "Running"
    /\ ret.step0 > first_reset.step
    /\ \E i \in 1..Len(current_output) : ret.output0[i] # current_output[i]
    /\ ProperUse

\* C14: across every step that returns, the output of each generator changes
\* by at most its ramp limit, whatever the action (stated for proper use of
\* a well-formed instance)
C14_RampLimitRespected ==
    (StepReturned /\ ProperUse) =>
        \A i \in 1..Len(current_output) :
            FLe(FAbs(FSub(current_output[i], ret.output0[i])), At(max_ramping, i))

\* a series shorter than one episode plus the forecast horizon
SeriesTooShort == Len(load_data) < EpisodeRoom + ForecastSteps

\* C15: on a series that is empty or shorter than one episode plus the
\* forecast horizon, no reset returns an observation, in any mode
C15_ShortSeriesRejected ==
    (ret.op = "reset" /\ SeriesTooShort) => ret.raised # ""

\* C16: no instance whose generator_capacities or generator_costs has a
\* length different from num_generators is constructed and then stepped
C16_InconsistentConfigRejected ==
    StepReturned =>
        /\ Len(capacities) = num_generators
        /\ Len(costs) = num_generators

\* the instance of the scenario: capacity 100 each, max_ramping 10
Scenario ==
    /\ num_generators = 5
    /\ capacities = MW(<<100, 100, 100, 100, 100>>)
    /\ max_ramping = MW(<<10>>)

\* C17: in the scenario every reset leaves outputs [50,50,50,50,50], and the
\* step that follows with action [1,1,-1,-1,0] computes adjustments
\* [10,10,-10,-10,0] and leaves outputs [60,60,40,40,50]
C17_ScenarioOutputs ==
    Scenario =>
        /\ ResetReturned => current_output = MW(<<50, 50, 50, 50, 50>>)
        /\ (/\ StepReturned
            /\ ret.output0 = MW(<<50, 50, 50, 50, 50>>)
            /\ ret.action = <<F(Fx(1)), F(Fx(1)), F(Fx(-1)), F(Fx(-1)), F(0)>>)
               => /\ ret.adjustments = MW(<<10, 10, -10, -10, 0>>)
                  /\ current_output = MW(<<60, 60, 40, 40, 50>>)

C17_Witness ==
    /\ Scenario
    /\ StepReturned
    /\ ret.phase0 = "Running"
    /\ ret.step0 = first_reset.step
    /\ ret.output0 = MW(<<50, 50, 50, 50, 50>>)
    /\ ret.action = <<F(Fx(1)), F(Fx(1)), F(Fx(-1)), F(Fx(-1)), F(0)>>
    /\ current_output = MW(<<60, 60, 40, 40, 50>>)

ZeroAction(a) == a # <<>> /\ \A i \in 1..Len(a) : a[i] = F(0)

\* C18: a step with the all-zero action that returns leaves every output as
\* it was, from the state a reset leaves and from every other reachable
\* state, and advances current_step by one
C18_ZeroActionKeepsOutputs ==
    (StepReturned /\ ZeroAction(ret.action)) =>
        /\ current_output = ret.output0
        /\ current_step = ret.step0 + 1

C18_Witness ==
    /\ StepReturned
    /\ ZeroAction(ret.action)
    /\ ProperUse
    /\ AllFinite(ret.output0)
    /\ ret.output0 # first_reset.output
    /\ current_output = ret.output0

\* C19: the overload component of every step is 0 when the gap is at most
\* 10% of the load, exactly 10% included, and twice the gap when the gap is
\* more than 10% of the load
C19_OverloadThreshold ==
    StepReturned =>
        /\ FLe(FTimes(10, ret.info.gap), ret.info.load) => ret.info.overload = F(0)
        /\ FGt(FTimes(10, ret.info.gap), ret.info.load)
               => ret.info.overload = FAdd(ret.info.gap, ret.info.gap)

C19_Witness ==
    /\ StepReturned
    /\ ProperUse
    /\ FGt(ret.info.gap, F(0))
    /\ FTimes(10, ret.info.gap) = ret.info.load
    /\ ret.info.overload = F(0)

\* clamp(a, -1, 1), entry by entry, for a vector without NaN
Clamped(a) ==
    Arr([i \in 1..Len(a) |->
            IF FGt(a[i], F(Fx(1))) THEN F(Fx(1))
            ELSE IF FLt(a[i], F(Fx(-1))) THEN F(Fx(-1)) ELSE a[i]])

NoNaN(a) == \A i \in 1..Len(a) : ~IsNaN(a[i])

\* C20: for every step that returns (action without NaN), the ramping
\* component is the sum of |clamped action[i] * max_ramp[i]|, whatever the
\* clamping of the outputs does, while cost and gap are those of the outputs
\* the step leaves
C20_RampingBeforeClamp ==
    (StepReturned /\ NoNaN(ret.action)) =>
        /\ ret.info.ramping =
               ArrSum(Arr([i \in 1..BLen(Len(ret.action), Len(max_ramping)) |->
                              FAbs(FMul(At(Clamped(ret.action), i), At(max_ramping, i)))]))
        /\ ret.info.cost =
               ArrSum(Arr([i \in 1..BLen(Len(current_output), Len(costs)) |->
                              FMul(At(current_output, i), At(costs, i))]))
        /\ ret.info.load = load_data[ret.step0 + 1]
        /\ ret.info.gap = FAbs(FSub(ArrSum(current_output), ret.info.load))

\* a generator at its capacity is commanded upward: its output stays, its
\* whole adjustment counts as ramping
C20_Witness ==
    /\ StepReturned
    /\ ProperUse
    /\ \E i \in 1..Len(current_output) :
           /\ ret.output0[i] = At(capacities, i)
           /\ FGt(ret.action[i], F(0))
           /\ current_output[i] = ret.output0[i]
           /\ FGt(FAbs(At(ret.adjustments, i)), F(0))
           /\ FGe(ret.info.ramping, FAbs(At(ret.adjustments, i)))

\* the index of the series the forecast entry k of index cs shows (0-based)
ForecastIndex(cs, k) ==
    IF cs + 1 + k < Len(load_data) THEN cs + 1 + k ELSE Len(load_data) - 1

\* C21: in every observation reset and step return, at whatever index up to
\* the last one of the series, the forecast part has exactly 4 entries and
\* entry k is the demand sample at index min(current_step + 1 + k, last)
C21_ForecastPadded ==
    (StepReturned \/ ResetReturned) =>
        /\ Len(ret.obs) = 1 + Len(current_output) + 4 + 2
        /\ \A k \in 0..3 :
               LET entry == ret.obs[1 + Len(current_output) + 1 + k]
               IN  /\ entry.t = "ratio"
                   /\ entry.n = load_data[ForecastIndex(current_step, k) + 1]

\* the observation at the last index of the series: all four entries padded
C21_Witness ==
    /\ StepReturned
    /\ current_step = Len(load_data) - 1
    /\ Len(load_data) > HorizonMargin
    /\ \A k \in 0..3 :
           ret.obs[1 + Len(current_output) + 1 + k].n = load_data[Len(load_data)]

\* C22: no reset and no step changes the demand series, the capacities, the
\* costs, the ramp limit or the reward weights: each keeps the value it had
\* at construction
C22_ConfigurationImmutable ==
    [][UNCHANGED <<load_data, capacities, costs, max_ramping, reward_weights>>]_vars

\* a second episode is under way and a step has just written new outputs
C22_Witness ==
    /\ StepReturned
    /\ ProperUse
    /\ first_reset.op = "reset"
    /\ ret.step0 > 0
    /\ output_ref = "own"
    /\ \E i \in 1..Len(current_output) :
           /\ current_output[i] # ret.output0[i]
           /\ current_output[i] # At(capacities, i)
           /\ FTimes(2, current_output[i]) # At(capacities, i)

\* the last call stepped the instance with the action GreedyPolicy selected
GreedyUsed == evaluate_policy.policy = "greedy" /\ ret.op = "step"

\* C23: with the costs [10,30,50,0,0], select_action never fails, gives its
\* largest command to generator 3 or 4 and its smallest to generator 2, and
\* returns one and the same vector on every observation
C23_GreedyRanksByCost ==
    (num_generators = 5 /\ costs = MW(<<10, 30, 50, 0, 0>>)) =>
        /\ evaluate_policy.raised_in # "select_action"
        /\ GreedyUsed =>
               /\ Len(ret.action) = 5
               /\ \/ \A i \in 1..5 : FLe(ret.action[i], ret.action[4])
                  \/ \A i \in 1..5 : FLe(ret.action[i], ret.action[5])
               /\ \A i \in 1..5 : FLe(ret.action[3], ret.action[i])
               /\ ret.action =
                      IF tie_break = "stable"
                      THEN <<F(0), F(-1), F(Fx(-1)), F(Fx(1)), F(1)>>
                      ELSE <<F(0), F(-1), F(Fx(-1)), F(1), F(Fx(1))>>

\* the action selected on an observation other than the first of the episode
C23_Witness ==
    /\ num_generators = 5
    /\ costs = MW(<<10, 30, 50, 0, 0>>)
    /\ GreedyUsed
    /\ ret.raised = ""
    /\ evaluate_policy.ep > 0
    /\ ret.output0 # first_reset.output
    /\ FGt(ret.action[4], F(0))
    /\ FLt(ret.action[3], F(0))

(***************************************************************************)
(* C24: the observation space dimension fixed at construction.  The       *)
(* constructor computes 1 + N + 4 + 2 and no operation writes it again.    *)
(***************************************************************************)

C25_ScoreThenObserve ==
    [][(ret'.op = "step" /\ ret'.raised = "") =>
          /\ current_step' = current_step + 1
          /\ ret'.info.load = load_data[current_step + 1]
          /\ ret'.info.gap = FAbs(FSub(ret'.info.generation, load_data[current_step + 1]))
          /\ ret'.obs[1] = Ratio(load_data[current_step' + 1], F(Fx(LoadNorm)))
          /\ (ret.op \in {"reset", "step"} /\ ret.raised = "") =>
                 ret.obs[1].n = ret'.info.load]_vars

C25_Witness ==
    /\ StepReturned
    /\ ret.phase0 = "Running"
    /\ ret.step0 >= 1
    /\ current_step = ret.step0 + 1
    /\ ret.info.load = load_data[ret.step0 + 1]
    /\ ret.obs[1].n = load_data[current_step + 1]
    /\ ret.obs[1].n # ret.info.load

(***************************************************************************)
(* C26: where a train-mode reset starts and how long its episode is.      *)
(***************************************************************************)

\* the loop of evaluate_policy is inside an episode, or has just left one
InEpisode == evaluate_policy.pc \in {"loop", "reset", "done"} /\ ret.op \in {"reset", "step"}

\* C26: in train mode reset places current_step in [0, max_steps - 24) with
\* max_steps = series length - 5, so each of the first 24 steps after a
\* train-mode reset returns truncated = false; the episode that follows is
\* max_steps minus the drawn offset steps long
C26_TrainEpisodeRoom ==
    mode = "train" =>
        /\ max_steps = Len(load_data) - 5
        /\ ResetReturned =>
               /\ 0 <= current_step
               /\ current_step < max_steps - 24
               /\ evaluate_policy.offset = current_step
        /\ (StepReturned /\ evaluate_policy.steps <= 24) => ~ret.truncated
        /\ (StepReturned /\ ret.truncated) =>
               /\ evaluate_policy.steps = max_steps - evaluate_policy.offset
               /\ evaluate_policy.last_len = evaluate_policy.steps

\* two training episodes of one evaluation differ in length
C26_Witness ==
    /\ mode = "train"
    /\ StepReturned
    /\ ret.truncated
    /\ evaluate_policy.ep = 2
    /\ evaluate_policy.first_len = max_steps
    /\ evaluate_policy.last_len = max_steps - 1
    /\ evaluate_policy.last_len > 24

(***************************************************************************)
(* C27: the indices read within an episode on a series long enough for     *)
(* train mode.                                                             *)
(***************************************************************************)

\* C27: for a demand series of at least 30 samples, in any mode, every index
\* at which reset, step and the observation builder read the series between
\* a reset and the first step that returns truncated = true lies within the
\* series (no call raises), and the forecast of every observation returned
\* in that interval is the unpadded slice of the four samples that follow
C27_ReadsWithinSeries ==
    (Len(load_data) >= 30 /\ InEpisode) =>
        /\ ret.raised = ""
        /\ evaluate_policy.raised_in = ""
        /\ 0 <= current_step
        /\ current_step + 1 + ForecastSteps <= Len(load_data)
        /\ ret.op = "step" => (0 <= ret.step0 /\ ret.step0 < Len(load_data))
        /\ \A k \in 1..ForecastSteps :
               ret.obs[1 + num_generators + k] =
                   Ratio(load_data[current_step + 1 + k], F(Fx(LoadNorm)))

\* the truncated step of an episode that started at the last offset train
\* mode can draw: its forecast ends at the last sample of the series
C27_Witness ==
    /\ Len(load_data) >= 30
    /\ mode = "train"
    /\ StepReturned
    /\ ret.truncated
    /\ evaluate_policy.offset = max_steps - 24 - 1
    /\ current_step + 1 + ForecastSteps = Len(load_data)

(***************************************************************************)
(* C28: GreedyPolicy on every number of generators and every cost vector.  *)
(***************************************************************************)

\* generator i has the lowest cost
Cheapest(i) == \A j \in 1..num_generators : FLe(costs[i], costs[j])

\* generator i has the highest cost
MostExpensive(i) == \A j \in 1..num_generators : FGe(costs[i], costs[j])

\* C28: for every num_generators >= 1 and every cost vector of that length,
\* GreedyPolicy.select_action returns without error a vector of length
\* num_generators with entries in [-1, 1] in which the cheapest generator
\* receives a positive command and the most expensive a negative one
C28_GreedyForEveryFleet ==
    (num_generators >= 1 /\ Len(costs) = num_generators) =>
        /\ evaluate_policy.raised_in # "select_action"
        /\ GreedyUsed =>
               /\ Len(ret.action) = num_generators
               /\ \A i \in 1..num_generators :
                      FLe(F(Fx(-1)), ret.action[i]) /\ FLe(ret.action[i], F(Fx(1)))
               /\ \E i \in 1..num_generators : Cheapest(i) /\ FGt(ret.action[i], F(0))
               /\ \E i \in 1..num_generators : MostExpensive(i) /\ FLt(ret.action[i], F(0))

(***************************************************************************)
(* C29: the loops of evaluate_policy end.                                  *)
(***************************************************************************)

\* reset raises on this instance: no sample to observe, or a train-mode
\* series with no offset to draw (C15)
ResetRaises ==
    \/ Len(load_data) = 0
    \/ mode = "train" /\ max_steps - EpisodeRoom <= 0

C30_StepsOverrideOnlyWhenGiven ==
    /\ (train_main.pc = "overridden" /\ train_main.steps = <<>>) =>
           train_main.total_timesteps = <<train_main.configured>>
    /\ (train_main.pc = "overridden" /\ train_main.steps # <<>>) =>
           train_main.total_timesteps = train_main.steps
    /\ (train_main.pc = "called" /\ train_main.steps = <<>> /\ ~train_main.quick_test) =>
           train_main.passed = <<train_main.configured>>

====
